---------------------------- MODULE Spec2Model ----------------------------
(***************************************************************************)
(* Model of apps/discord-worker/scripts/subset-cjk-fonts.py: the locale    *)
(* character collector, the statistics reporter, subset_font and main().   *)
(*                                                                         *)
(* A Python str is a sequence of codepoints (naturals); ord() of a         *)
(* character is that codepoint.  A parsed JSON value is a tagged record    *)
(* [t, v]; a mapping keeps its keys (sequences of codepoints) beside its   *)
(* values.  A file's content is a tagged record as well: absent, a parsed  *)
(* JSON document, a text json.load rejects, a font, or a truncated file.   *)
(* fontTools, json and urllib are libraries: what they do is modelled by   *)
(* their documented effect, and each of their calls may fail.              *)
(***************************************************************************)
EXTENDS Integers, Sequences, FiniteSets, TLC

VARIABLES
    pc,           \* the statement main() (or the function under study) is at
    fs,           \* the file system: path -> content
    fs0,          \* the file system the run started from (never written)
    codepoints,   \* main's local `codepoints` (None before collection)
    stats,        \* the numbers print_stats printed (None before)
    kr_input,     \* main's local `kr_input`
    log,          \* what happened, in order: console lines, calls, file writes
    exit_status   \* the process's exit status: << >> while it runs, then <<status>>

vars == <<pc, fs, fs0, codepoints, stats, kr_input, log, exit_status>>

None == [t |-> "None", v |-> 0]

\* None where a path is expected (`if not kr_input` takes it as false)
NoPath == << >>

---------------------------------------------------------------------------
(* Bounds of the model *)

\* Nesting depth of the generated locale documents.
MaxDepth == 2

---------------------------------------------------------------------------
(* Configuration (lines 42-56) *)

CORE_LOCALES_DIR == "xivdyetools-core/src/data/locales"
BOT_LOCALES_DIR  == "discord-worker/src/locales"
FONTS_DIR        == "discord-worker/src/fonts"

\* os.path.join(dir, name)
join(dir, name) == <<dir, name>>

SC_INPUT  == join(FONTS_DIR, "NotoSansSC-Regular.ttf")
SC_OUTPUT == join(FONTS_DIR, "NotoSansSC-Subset.ttf")
KR_OUTPUT == join(FONTS_DIR, "NotoSansKR-Subset.ttf")

NOTO_KR_URL == "https://github.com/google/fonts/raw/main/ofl/notosanskr/NotoSansKR%5Bwght%5D.ttf"

LOCALE_LANGUAGES == <<"ja", "ko", "zh", "de", "fr">>

\* f"{lang}.json" under a locale directory
LocalePath(dir, lang) == join(dir, lang \o ".json")

kr_candidates ==
    << join(FONTS_DIR, "NotoSansKR-Variable.ttf"),
       join(FONTS_DIR, "NotoSansKR[wght].ttf"),
       join(FONTS_DIR, "NotoSansKR-Regular.ttf") >>

KR_DOWNLOAD == join(FONTS_DIR, "NotoSansKR-Variable.ttf")

fix_names_KR ==
    [id \in {1, 2, 4, 6} |->
        CASE id = 1 -> "Noto Sans KR"
          [] id = 2 -> "Regular"
          [] id = 4 -> "Noto Sans KR Regular"
          [] id = 6 -> "NotoSansKR-Regular"]

\* fix_names=None: no override
NoFix == [id \in {} |-> ""]

Range(s) == {s[i] : i \in 1..Len(s)}

LocalePaths ==
    {LocalePath(d, l) : d \in {CORE_LOCALES_DIR, BOT_LOCALES_DIR},
                        l \in Range(LOCALE_LANGUAGES)}

FontPaths == {SC_INPUT, SC_OUTPUT, KR_OUTPUT} \cup Range(kr_candidates)

Paths == LocalePaths \cup FontPaths

---------------------------------------------------------------------------
(* File contents *)

Absent    == [t |-> "absent", v |-> 0]
Malformed == [t |-> "malformed", v |-> 0]     \* text json.load raises on
Partial   == [t |-> "partial", v |-> 0]       \* a truncated, unreadable font

\* os.path.exists(path)
exists(f, path) == f[path].t # "absent"

\* JSON values
JStr(s)   == [t |-> "str", v |-> s]
JDict(kv) == [t |-> "dict", v |-> kv]          \* kv: sequence of [k, v]
JList(xs) == [t |-> "list", v |-> xs]
JInt(n)   == [t |-> "int", v |-> n]
JFloat(n) == [t |-> "float", v |-> n]
JBool(b)  == [t |-> "bool", v |-> b]
JNull    == [t |-> "null", v |-> 0]
KV(k, x) == [k |-> k, v |-> x]

---------------------------------------------------------------------------
(* Unicode block limits used by the script *)

ASCII_LO == 32        \* 0x20
ASCII_END == 127      \* 0x7F, the exclusive end of range(0x20, 0x7F)
ASCII_HI == 126       \* 0x7E
CJK_LO == 19968       \* 0x4E00
CJK_HI == 40959       \* 0x9FFF
HANGUL_LO == 44032    \* 0xAC00
HANGUL_HI == 55215    \* 0xD7AF
KATAKANA_LO == 12448  \* 0x30A0
KATAKANA_HI == 12543  \* 0x30FF
HIRAGANA_LO == 12352  \* 0x3040
HIRAGANA_HI == 12447  \* 0x309F

---------------------------------------------------------------------------
(* collect_all_characters (lines 63-98) *)

\* set(range(0x20, 0x7F)) with one codepoint short: a mutant of AsciiSeed
AsciiSeed_short == ASCII_LO .. (ASCII_END - 2)

\* codepoints = set(range(0x20, 0x7F))
AsciiSeed == ASCII_LO .. (ASCII_END - 1)

RECURSIVE add_strings(_, _)
RECURSIVE add_each(_, _, _)
RECURSIVE add_strings_keys(_, _)
RECURSIVE add_each_keys(_, _, _)

add_each_keys(xs, i, acc) ==
    IF i > Len(xs) THEN acc
    ELSE add_each_keys(xs, i + 1, add_strings_keys(xs[i], acc))

\* add_strings with `for v in obj:` over a mapping, which visits its keys: a mutant
add_strings_keys(obj, acc) ==
    IF obj.t = "str" THEN acc \cup {obj.v[i] : i \in 1..Len(obj.v)}
    ELSE IF obj.t = "dict" THEN
        add_each_keys([i \in 1..Len(obj.v) |-> JStr(obj.v[i].k)], 1, acc)
    ELSE IF obj.t = "list" THEN add_each_keys(obj.v, 1, acc)
    ELSE acc

\* `for v in obj.values(): add_strings(v)` and `for item in obj: add_strings(item)`:
\* the elements of xs from index i on, each visited in turn, into acc.
add_each(xs, i, acc) ==
    IF i > Len(xs) THEN acc
    ELSE add_each(xs, i + 1, add_strings(xs[i], acc))

\* add_strings(obj) acting on the enclosing `codepoints` set, here acc
add_strings(obj, acc) ==
    IF obj.t = "str" THEN acc \cup {obj.v[i] : i \in 1..Len(obj.v)}
    ELSE IF obj.t = "dict" THEN
        add_each([i \in 1..Len(obj.v) |-> obj.v[i].v], 1, acc)
    ELSE IF obj.t = "list" THEN add_each(obj.v, 1, acc)
    ELSE acc

\* The console line of one locale file
LocaleLine(label, lang, what) == [op |-> "print", dir |-> label, lang |-> lang, what |-> what]

\* visit_locale without the os.path.exists test: open() raises on an absent
\* file. A mutant of visit_locale.
visit_locale_noexists(f, dir, label, lang, st) ==
    LET path == LocalePath(dir, lang)
        Visit(s) ==
            IF s.raised THEN s
            ELSE IF f[path].t \in {"absent", "malformed"}
                 THEN [s EXCEPT !.raised = TRUE]
                 ELSE [s EXCEPT !.codepoints = add_strings(f[path], @),
                                !.printed = Append(@, LocaleLine(label, lang, "loaded"))]
    IN  CHOOSE r \in {Visit(s) : s \in {st}} : TRUE

\* One iteration of `for lang in LOCALE_LANGUAGES` over directory dir: st is
\* [codepoints, printed, raised]; a json.load that raises ends the function.
\* (The state so far is bound as s, a value, so that it is worked out once.)
visit_locale(f, dir, label, lang, st) ==
    LET path == LocalePath(dir, lang)
        Visit(s) ==
            IF s.raised THEN s
            ELSE IF exists(f, path) THEN
                IF f[path].t = "malformed"
                THEN [s EXCEPT !.raised = TRUE]
                ELSE [s EXCEPT !.codepoints = add_strings(f[path], @),
                               !.printed = Append(@, LocaleLine(label, lang, "loaded"))]
            ELSE [s EXCEPT !.printed = Append(@, LocaleLine(label, lang, "not found (skipped)"))]
    IN  CHOOSE r \in {Visit(s) : s \in {st}} : TRUE

RECURSIVE scan_dir(_, _, _, _, _)
\* `for lang in LOCALE_LANGUAGES:` from index i on
scan_dir(f, dir, label, i, st) ==
    IF i > Len(LOCALE_LANGUAGES) THEN st
    ELSE scan_dir(f, dir, label, i + 1,
                  visit_locale(f, dir, label, LOCALE_LANGUAGES[i], st))

\* collect_all_characters(): the returned set, the lines printed, and whether
\* it ended in an exception instead of returning
collect_all_characters(f) ==
    LET st0 == [codepoints |-> AsciiSeed, printed |-> << >>, raised |-> FALSE]
        st1 == scan_dir(f, CORE_LOCALES_DIR, "Core", 1, st0)
    IN  scan_dir(f, BOT_LOCALES_DIR, "Bot", 1, st1)

---------------------------------------------------------------------------
(* print_stats (lines 101-115) *)

\* sum(1 for c in codepoints if lo <= c <= hi)
CountIn(cps, lo, hi) == Cardinality({c \in cps : lo <= c /\ c <= hi})

\* print_stats whose Hiragana test runs one codepoint into Katakana: a mutant
print_stats_overlap(cps) ==
    LET hangul      == CountIn(cps, HANGUL_LO, HANGUL_HI)
        katakana    == CountIn(cps, KATAKANA_LO, KATAKANA_HI)
        hiragana    == CountIn(cps, HIRAGANA_LO, HIRAGANA_HI + 1)
        cjk         == CountIn(cps, CJK_LO, CJK_HI)
        ascii_count == CountIn(cps, ASCII_LO, ASCII_HI)
    IN  [total |-> Cardinality(cps), ascii |-> ascii_count, cjk |-> cjk,
         hangul |-> hangul, katakana |-> katakana, hiragana |-> hiragana,
         other |-> Cardinality(cps) - ascii_count - cjk - hangul - katakana - hiragana]

\* print_stats(codepoints): the seven numbers it prints
print_stats(cps) ==
    LET hangul      == CountIn(cps, HANGUL_LO, HANGUL_HI)
        katakana    == CountIn(cps, KATAKANA_LO, KATAKANA_HI)
        hiragana    == CountIn(cps, HIRAGANA_LO, HIRAGANA_HI)
        cjk         == CountIn(cps, CJK_LO, CJK_HI)
        ascii_count == CountIn(cps, ASCII_LO, ASCII_HI)
    IN  [total |-> Cardinality(cps), ascii |-> ascii_count, cjk |-> cjk,
         hangul |-> hangul, katakana |-> katakana, hiragana |-> hiragana,
         other |-> Cardinality(cps) - ascii_count - cjk - hangul - katakana - hiragana]

---------------------------------------------------------------------------
(* subset_font (lines 122-147) *)

NameRecord(id, platform, s) == [nameID |-> id, platformID |-> platform, string |-> s]
Font(names, cmap) == [t |-> "font", v |-> [names |-> names, cmap |-> cmap]]

\* Subsetter(options).populate(unicodes=codepoints); subsetter.subset(font), with
\* name_IDs = ['*'] (every name ID is kept) and the library's defaults otherwise:
\* the character map is cut to the requested codepoints the font has, and the
\* legacy (Macintosh platform) name records go.
Subsetted(font, cps) ==
    LET IsUnicode(r) == r.platformID # 1
    IN  [names |-> SelectSeq(font.names, IsUnicode), cmap |-> font.cmap \cap cps]

\* The name loop leaving after the first record of each ID: a mutant of FixNames
FixNames_first(names, fix_names) ==
    IF DOMAIN fix_names = {} THEN names
    ELSE [i \in 1..Len(names) |->
            IF /\ names[i].nameID \in DOMAIN fix_names
               /\ \A j \in 1..(i - 1) : names[j].nameID # names[i].nameID
            THEN [names[i] EXCEPT !.string = fix_names[names[i].nameID]]
            ELSE names[i]]

\* `if fix_names: for record in font['name'].names: if record.nameID in fix_names:
\*  record.string = fix_names[record.nameID]`
FixNames(names, fix_names) ==
    IF DOMAIN fix_names = {} THEN names
    ELSE [i \in 1..Len(names) |->
            IF names[i].nameID \in DOMAIN fix_names
            THEN [names[i] EXCEPT !.string = fix_names[names[i].nameID]]
            ELSE names[i]]

\* What a library call of subset_font may do: run through, or raise while
\* loading, while subsetting, while saving (before the output file is opened,
\* or with the output left truncated), or after the save (getBestCmap, getsize).
Outcomes == {"ok", "load", "subset", "save", "save_partial", "after_save"}

\* subset_font(input_path, output_path, codepoints, fix_names) on file system f:
\* the file system it leaves, whether it raised, whether it wrote to
\* output_path, the font it saved (None if none) and the glyph count it returns.
\* (The file sizes it reports are not modelled.)
subset_font(f, input_path, output_path, cps, fix_names, outcome) ==
    IF f[input_path].t # "font" \/ outcome = "load"
    THEN [fs |-> f, raised |-> TRUE, wrote |-> FALSE, saved |-> None, glyph_count |-> 0]
    ELSE IF outcome = "subset"
    THEN [fs |-> f, raised |-> TRUE, wrote |-> FALSE, saved |-> None, glyph_count |-> 0]
    ELSE LET sub   == Subsetted(f[input_path].v, cps)
             fixed == [sub EXCEPT !.names = FixNames(sub.names, fix_names)]
             out   == [t |-> "font", v |-> fixed]
         IN  IF outcome = "save"
             THEN [fs |-> f, raised |-> TRUE, wrote |-> FALSE, saved |-> None, glyph_count |-> 0]
             ELSE IF outcome = "save_partial"
             THEN [fs |-> [f EXCEPT ![output_path] = Partial], raised |-> TRUE,
                   wrote |-> TRUE, saved |-> None, glyph_count |-> 0]
             ELSE [fs |-> [f EXCEPT ![output_path] = out],
                   raised |-> (outcome = "after_save"), wrote |-> TRUE,
                   saved |-> out, glyph_count |-> Cardinality(fixed.cmap)]

---------------------------------------------------------------------------
(* The files the runs start from *)

\* Locale texts: Japanese kana and kanji, Hangul, Chinese with a full-width
\* comma, German and French with Latin-1 letters.
CoreText(lang) ==
    CASE lang = "ja" -> <<12450, 12459, 12354, 36196>>
      [] lang = "ko" -> <<50504, 45397>>
      [] lang = "zh" -> <<24744, 22909, 65292>>
      [] lang = "de" -> <<71, 114, 252, 110>>
      [] lang = "fr" -> <<233, 116, 233>>

BotText(lang) ==
    CASE lang = "ja" -> <<12356, 12452>>
      [] lang = "ko" -> <<54620>>
      [] lang = "zh" -> <<20013>>
      [] lang = "de" -> <<228>>
      [] lang = "fr" -> <<232, 32>>

\* A key no value repeats: U+00DF
KeyText == <<223>>

\* A document shaped like the repository's locale files: nested mappings and
\* sequences with string, number, boolean and null leaves.
FileDoc(dir, lang) ==
    IF dir = CORE_LOCALES_DIR
    THEN JDict(<< KV(<<100>>, JDict(<< KV(<<49>>, JStr(CoreText(lang))),
                                       KV(KeyText, JInt(2)) >>)),
                  KV(<<109>>, JList(<< JFloat(1), JNull >>)) >>)
    ELSE JDict(<< KV(<<116>>, JList(<< JStr(BotText(lang)), JBool(TRUE),
                                       JDict(<< KV(KeyText, JStr(<< >>)) >>) >>)) >>)

EmptyDoc == JDict(<< >>)

DocLeaves == {JStr(<<24744, 22909>>), JStr(<<50504>>), JInt(7), JNull}

RECURSIVE Docs(_)
\* Documents nested up to d containers deep
Docs(d) ==
    IF d = 0 THEN DocLeaves
    ELSE LET below == Docs(d - 1) IN
         below
         \cup {JDict(<<KV(KeyText, x)>>) : x \in below}
         \cup {JList(<<x>>) : x \in below}
         \cup {JDict(<<KV(<<107>>, l), KV(KeyText, x)>>) : l \in DocLeaves, x \in below}
         \cup {JList(<<x, l>>) : l \in DocLeaves, x \in below}

AsciiRange == ASCII_LO .. ASCII_HI

NotoSansSC ==
    Font(<< NameRecord(1, 3, "Noto Sans SC"), NameRecord(2, 3, "Regular"),
            NameRecord(3, 3, "2.004;GOOG;NotoSansSC-Regular"),
            NameRecord(4, 3, "Noto Sans SC Regular"),
            NameRecord(6, 3, "NotoSansSC-Regular"),
            NameRecord(1, 1, "Noto Sans SC") >>,
         AsciiRange \cup {12450, 12459, 12354, 12356, 12452, 36196, 24744, 22909,
                          20013, 65292, 252, 233, 19968})

NotoSansKRVariable ==
    Font(<< NameRecord(1, 3, "Noto Sans KR Thin"), NameRecord(2, 3, "Regular"),
            NameRecord(3, 3, "2.004;GOOG;NotoSansKR-Thin"),
            NameRecord(4, 3, "Noto Sans KR Thin"),
            NameRecord(6, 3, "NotoSansKR-Thin"),
            NameRecord(256, 3, "Weight"),
            NameRecord(4, 0, "Noto Sans KR Thin"),
            NameRecord(1, 1, "Noto Sans KR Thin") >>,
         AsciiRange \cup {50504, 45397, 54620, 44032, 252})

\* A static font whose name table has no PostScript name (ID 6)
NotoSansKRStatic ==
    Font(<< NameRecord(1, 3, "Noto Sans KR"), NameRecord(2, 3, "Regular"),
            NameRecord(3, 3, "2.004;GOOG;NotoSansKR-Regular"),
            NameRecord(4, 3, "Noto Sans KR") >>,
         AsciiRange \cup {50504, 45397, 54620})

\* An output of an earlier run
OldSubset == Font(<< NameRecord(1, 3, "old") >>, AsciiRange)

\* The locale part of a file system from a choice per locale path
\* (0 absent, 1 an empty document, 2 the locale's document, 3 malformed)
LocaleContent(p, c) ==
    IF c = 0 THEN Absent
    ELSE IF c = 1 THEN EmptyDoc
    ELSE IF c = 3 THEN Malformed
    ELSE IF p[1] = CORE_LOCALES_DIR
         THEN LET l == CHOOSE l \in Range(LOCALE_LANGUAGES) : LocalePath(CORE_LOCALES_DIR, l) = p
              IN FileDoc(CORE_LOCALES_DIR, l)
         ELSE LET l == CHOOSE l \in Range(LOCALE_LANGUAGES) : LocalePath(BOT_LOCALES_DIR, l) = p
              IN FileDoc(BOT_LOCALES_DIR, l)

NoFonts == [p \in FontPaths |-> Absent]

MkFs(locales, fonts) ==
    [p \in Paths |-> IF p \in LocalePaths THEN locales[p] ELSE fonts[p]]

---------------------------------------------------------------------------
(* main (lines 154-197) *)

\* The file write of a subset_font call, as log entries
WritesOf(output_path, r) ==
    IF r.wrote THEN << [op |-> "write", path |-> output_path] >> ELSE << >>

CallEntry(input_path, output_path, cps, fix_names, r) ==
    [op |-> "subset_font", input |-> input_path, output |-> output_path,
     cps |-> cps, fix_names |-> fix_names, raised |-> r.raised, saved |-> r.saved]

\* An uncaught exception ends the process with a traceback and status 1
Raise(at) ==
    /\ pc' = "crashed"
    /\ exit_status' = <<1>>

\* line 156: codepoints = collect_all_characters()
Collect ==
    /\ pc = "collect"
    /\ LET r == collect_all_characters(fs) IN
       IF r.raised
       THEN /\ Raise("collect")
            /\ log' = log \o r.printed \o << [op |-> "json.load", raised |-> TRUE] >>
            /\ UNCHANGED codepoints
       ELSE /\ pc' = "print_stats"
            /\ codepoints' = r.codepoints
            /\ log' = log \o r.printed \o << [op |-> "collected", cps |-> r.codepoints] >>
            /\ UNCHANGED exit_status
    /\ UNCHANGED <<fs, fs0, stats, kr_input>>

\* line 157: print_stats(codepoints)
PrintStats ==
    /\ pc = "print_stats"
    /\ stats' = print_stats(codepoints)
    /\ log' = Append(log, [op |-> "print_stats", cps |-> codepoints])
    /\ pc' = "check_sc"
    /\ UNCHANGED <<fs, fs0, codepoints, kr_input, exit_status>>

\* The check that prints the guidance and goes on without sys.exit(1): a mutant
CheckSC_noexit ==
    /\ pc = "check_sc"
    /\ IF ~exists(fs, SC_INPUT)
       THEN log' = Append(log, [op |-> "print", what |-> "Error: SC_INPUT not found."])
       ELSE UNCHANGED log
    /\ pc' = "subset_sc"
    /\ UNCHANGED <<fs, fs0, codepoints, stats, kr_input, exit_status>>

\* lines 160-163: if not os.path.exists(SC_INPUT): ... sys.exit(1)
CheckSC ==
    /\ pc = "check_sc"
    /\ IF ~exists(fs, SC_INPUT)
       THEN /\ pc' = "exited"
            /\ exit_status' = <<1>>
            /\ log' = Append(log, [op |-> "print", what |-> "Error: SC_INPUT not found."])
       ELSE /\ pc' = "subset_sc"
            /\ UNCHANGED <<exit_status, log>>
    /\ UNCHANGED <<fs, fs0, codepoints, stats, kr_input>>

\* lines 165-168: subset_font(SC_INPUT, SC_OUTPUT, codepoints)
SubsetSC ==
    /\ pc = "subset_sc"
    /\ \E outcome \in Outcomes :
         LET r == subset_font(fs, SC_INPUT, SC_OUTPUT, codepoints, NoFix, outcome) IN
         /\ fs' = r.fs
         /\ log' = log \o << CallEntry(SC_INPUT, SC_OUTPUT, codepoints, NoFix, r) >>
                       \o WritesOf(SC_OUTPUT, r)
         /\ IF r.raised THEN Raise("subset_sc")
                        ELSE pc' = "probe_kr" /\ UNCHANGED exit_status
    /\ UNCHANGED <<fs0, codepoints, stats, kr_input>>

RECURSIVE first_existing(_, _, _)
\* next((p for p in kr_candidates if os.path.exists(p)), None), probing backwards: a mutant
first_existing_last(f, cands, i) ==
    IF \A j \in 1..Len(cands) : ~exists(f, cands[j]) THEN NoPath
    ELSE cands[CHOOSE j \in 1..Len(cands) :
                 /\ exists(f, cands[j])
                 /\ \A k \in (j + 1)..Len(cands) : ~exists(f, cands[k])]

\* next((p for p in kr_candidates if os.path.exists(p)), None), from index i on
first_existing(f, cands, i) ==
    IF i > Len(cands) THEN NoPath
    ELSE IF exists(f, cands[i]) THEN cands[i]
    ELSE first_existing(f, cands, i + 1)

\* lines 172-179: the candidate probe
ProbeKR ==
    /\ pc = "probe_kr"
    /\ LET found == first_existing(fs, kr_candidates, 1) IN
       /\ kr_input' = found
       /\ log' = Append(log, [op |-> "probe", found |-> found])
       /\ pc' = IF found = NoPath THEN "download_kr" ELSE "subset_kr"
    /\ UNCHANGED <<fs, fs0, codepoints, stats, exit_status>>

\* What urlretrieve may do: fetch the font, fetch something that is no font,
\* or raise with nothing or a truncated file at the destination.
DownloadOutcomes == {"ok", "not_a_font", "fail", "fail_partial"}

\* lines 180-184: the download fallback
DownloadKR ==
    /\ pc = "download_kr"
    /\ kr_input' = KR_DOWNLOAD
    /\ \E outcome \in DownloadOutcomes :
         /\ fs' = CASE outcome = "ok" -> [fs EXCEPT ![KR_DOWNLOAD] = NotoSansKRVariable]
                    [] outcome = "fail" -> fs
                    [] OTHER -> [fs EXCEPT ![KR_DOWNLOAD] = Partial]
         /\ log' = log \o << [op |-> "urlretrieve", url |-> NOTO_KR_URL, path |-> KR_DOWNLOAD,
                              raised |-> (outcome \in {"fail", "fail_partial"})] >>
                       \o (IF outcome = "fail" THEN << >>
                           ELSE << [op |-> "write", path |-> KR_DOWNLOAD] >>)
         /\ IF outcome \in {"fail", "fail_partial"}
            THEN Raise("download_kr")
            ELSE pc' = "subset_kr" /\ UNCHANGED exit_status
    /\ UNCHANGED <<fs0, codepoints, stats>>

\* The Korean step with its failure caught and reported, the run going on to
\* its end: a mutant
SubsetKR_swallow ==
    /\ pc = "subset_kr"
    /\ \E outcome \in Outcomes :
         LET r == subset_font(fs, kr_input, KR_OUTPUT, codepoints, fix_names_KR, outcome) IN
         /\ fs' = r.fs
         /\ log' = log \o << CallEntry(kr_input, KR_OUTPUT, codepoints, fix_names_KR, r) >>
                       \o WritesOf(KR_OUTPUT, r)
         /\ pc' = "done" /\ exit_status' = <<0>>
    /\ UNCHANGED <<fs0, codepoints, stats, kr_input>>

\* The Korean step given only the ASCII and Hangul codepoints: a mutant
SubsetKR_hangul_only ==
    /\ pc = "subset_kr"
    /\ \E outcome \in Outcomes :
         LET cps == {c \in codepoints : c <= ASCII_HI \/ (HANGUL_LO <= c /\ c <= HANGUL_HI)}
             r == subset_font(fs, kr_input, KR_OUTPUT, cps, fix_names_KR, outcome) IN
         /\ fs' = r.fs
         /\ log' = log \o << CallEntry(kr_input, KR_OUTPUT, cps, fix_names_KR, r) >>
                       \o WritesOf(KR_OUTPUT, r)
         /\ IF r.raised THEN Raise("subset_kr")
                        ELSE pc' = "done" /\ exit_status' = <<0>>
    /\ UNCHANGED <<fs0, codepoints, stats, kr_input>>

\* The Korean step removing both outputs when it fails: a mutant
SubsetKR_cleanup ==
    /\ pc = "subset_kr"
    /\ \E outcome \in Outcomes :
         LET r == subset_font(fs, kr_input, KR_OUTPUT, codepoints, fix_names_KR, outcome) IN
         /\ fs' = IF r.raised
                  THEN [r.fs EXCEPT ![SC_OUTPUT] = Absent, ![KR_OUTPUT] = Absent]
                  ELSE r.fs
         /\ log' = log \o << CallEntry(kr_input, KR_OUTPUT, codepoints, fix_names_KR, r) >>
                       \o WritesOf(KR_OUTPUT, r)
         /\ IF r.raised THEN Raise("subset_kr")
                        ELSE pc' = "done" /\ exit_status' = <<0>>
    /\ UNCHANGED <<fs0, codepoints, stats, kr_input>>

\* lines 186-197: subset_font(kr_input, KR_OUTPUT, codepoints, fix_names={...}),
\* the closing prints and the return
SubsetKR ==
    /\ pc = "subset_kr"
    /\ \E outcome \in Outcomes :
         LET r == subset_font(fs, kr_input, KR_OUTPUT, codepoints, fix_names_KR, outcome) IN
         /\ fs' = r.fs
         /\ log' = log \o << CallEntry(kr_input, KR_OUTPUT, codepoints, fix_names_KR, r) >>
                       \o WritesOf(KR_OUTPUT, r)
         /\ IF r.raised THEN Raise("subset_kr")
                        ELSE pc' = "done" /\ exit_status' = <<0>>
    /\ UNCHANGED <<fs0, codepoints, stats, kr_input>>

Next ==
    \/ Collect
    \/ PrintStats
    \/ CheckSC
    \/ SubsetSC
    \/ ProbeKR
    \/ DownloadKR
    \/ SubsetKR

\* The locale files of a run: the core files of any set of languages, with the
\* bot files of none, of the same or of all languages; or all ten present with
\* one of them malformed.  (SpecCollect goes through every combination.)
LocaleEnvs ==
    {[p \in LocalePaths |->
        LocaleContent(p, IF p \in {LocalePath(CORE_LOCALES_DIR, l) : l \in core}
                              \cup {LocalePath(BOT_LOCALES_DIR, l) : l \in bot}
                         THEN 2 ELSE 0)] :
      core \in SUBSET Range(LOCALE_LANGUAGES),
      bot \in {{}, {"ko", "zh"}, Range(LOCALE_LANGUAGES)}}
    \cup {[p \in LocalePaths |-> LocaleContent(p, IF p = bad THEN 3 ELSE 2)] : bad \in LocalePaths}

\* The font files of a run
FontEnvs ==
    {[p \in FontPaths |->
        CASE p = SC_INPUT -> sc
          [] p = kr_candidates[1] -> k1
          [] p = kr_candidates[2] -> k2
          [] p = kr_candidates[3] -> k3
          [] OTHER -> old] :
      sc \in {Absent, NotoSansSC},
      k1 \in {Absent, NotoSansKRVariable, Partial},
      k2 \in {Absent, NotoSansKRVariable},
      k3 \in {Absent, NotoSansKRStatic},
      old \in {Absent, OldSubset}}

Init ==
    /\ pc = "collect"
    /\ \E l \in LocaleEnvs, f \in FontEnvs : fs = MkFs(l, f)
    /\ fs0 = fs
    /\ codepoints = None
    /\ stats = None
    /\ kr_input = NoPath
    /\ log = << >>
    /\ exit_status = << >>

Spec == Init /\ [][Next]_vars

\* The locale files of the runs followed to their end: none, all, the core
\* files only, or all with the first or the last-scanned one malformed
FairLocaleEnvs ==
    {[p \in LocalePaths |-> LocaleContent(p, c)] : c \in {0, 2}}
    \cup {[p \in LocalePaths |-> LocaleContent(p, IF p[1] = CORE_LOCALES_DIR THEN 2 ELSE 0)]}
    \cup {[p \in LocalePaths |-> LocaleContent(p, IF p = bad THEN 3 ELSE 2)] :
            bad \in {LocalePath(CORE_LOCALES_DIR, "ja"), LocalePath(BOT_LOCALES_DIR, "fr")}}

FairInit ==
    /\ pc = "collect"
    /\ \E l \in FairLocaleEnvs, f \in FontEnvs : fs = MkFs(l, f)
    /\ fs0 = fs
    /\ codepoints = None
    /\ stats = None
    /\ kr_input = NoPath
    /\ log = << >>
    /\ exit_status = << >>

\* main under the scheduling of a running process: a step that can be taken is
\* taken (the interpreter runs the next statement)
FairSpec == FairInit /\ [][Next]_vars /\ WF_vars(Next)

---------------------------------------------------------------------------
(* collect_all_characters and print_stats on their own *)

\* A call of collect_all_characters() that returns
CallCollect ==
    /\ pc = "call_collect"
    /\ LET r == collect_all_characters(fs) IN
       /\ ~r.raised
       /\ codepoints' = r.codepoints
       /\ log' = r.printed
    /\ pc' = "returned"
    /\ UNCHANGED <<fs, fs0, stats, kr_input, exit_status>>

\* Every choice of absent, empty or filled for the ten locale files
PresenceEnvs ==
    {[p \in LocalePaths |-> LocaleContent(p, c[p])] : c \in [LocalePaths -> {0, 1, 2}]}

\* One generated document in a first, a middle or a last-scanned file, alone or
\* beside the other files' documents
NestedEnvs ==
    {[p \in LocalePaths |-> IF p = at THEN d ELSE LocaleContent(p, c)] :
        at \in {LocalePath(CORE_LOCALES_DIR, "ja"), LocalePath(CORE_LOCALES_DIR, "fr"),
                LocalePath(BOT_LOCALES_DIR, "ko")},
        d \in Docs(MaxDepth), c \in {0, 2}}

InitCollect ==
    /\ pc = "call_collect"
    /\ \E l \in PresenceEnvs \cup NestedEnvs : fs = MkFs(l, NoFonts)
    /\ fs0 = fs
    /\ codepoints = None
    /\ stats = None
    /\ kr_input = NoPath
    /\ log = << >>
    /\ exit_status = << >>

NextCollect == CallCollect

SpecCollect == InitCollect /\ [][NextCollect]_vars

\* A call of print_stats(codepoints)
CallStats ==
    /\ pc = "call_stats"
    /\ stats' = print_stats(codepoints)
    /\ pc' = "returned"
    /\ UNCHANGED <<fs, fs0, codepoints, kr_input, log, exit_status>>

\* The codepoints at and next to the limits of the five blocks
EdgeCodepoints ==
    {ASCII_LO - 1, ASCII_LO, ASCII_HI, ASCII_HI + 1,
     HIRAGANA_LO - 1, HIRAGANA_LO, HIRAGANA_HI, KATAKANA_LO, KATAKANA_HI, KATAKANA_HI + 1,
     CJK_LO - 1, CJK_LO, CJK_HI, CJK_HI + 1,
     HANGUL_LO - 1, HANGUL_LO, HANGUL_HI, HANGUL_HI + 1}

InitStats ==
    /\ pc = "call_stats"
    /\ fs = MkFs([p \in LocalePaths |-> Absent], NoFonts)
    /\ fs0 = fs
    /\ codepoints \in SUBSET EdgeCodepoints
    /\ stats = None
    /\ kr_input = NoPath
    /\ log = << >>
    /\ exit_status = << >>

NextStats == CallStats

SpecStats == InitStats /\ [][NextStats]_vars

---------------------------------------------------------------------------
(* Properties of the character collector (checked under SpecCollect) *)

PresentLocales == {p \in LocalePaths : fs[p].t # "absent"}

RECURSIVE StringLeaves(_)
\* The string values of a document: those reached through mapping values and
\* sequence elements, at any depth
StringLeaves(obj) ==
    CASE obj.t = "str"  -> {obj.v}
      [] obj.t = "dict" -> UNION {StringLeaves(obj.v[i].v) : i \in DOMAIN obj.v}
      [] obj.t = "list" -> UNION {StringLeaves(obj.v[i]) : i \in DOMAIN obj.v}
      [] OTHER -> {}

LeafCodepoints(obj) == UNION {Range(str) : str \in StringLeaves(obj)}

RECURSIVE DepthOf(_)
\* How many containers deep a document goes
DepthOf(obj) ==
    CASE obj.t = "dict" ->
            1 + (IF obj.v = << >> THEN 0
                 ELSE LET ds == {DepthOf(obj.v[i].v) : i \in DOMAIN obj.v}
                      IN CHOOSE m \in ds : \A n \in ds : n <= m)
      [] obj.t = "list" ->
            1 + (IF obj.v = << >> THEN 0
                 ELSE LET ds == {DepthOf(obj.v[i]) : i \in DOMAIN obj.v}
                      IN CHOOSE m \in ds : \A n \in ds : n <= m)
      [] OTHER -> 0

\* C2: the set collect_all_characters returns contains every codepoint of
\* 0x20..0x7E, whichever locale files are present and whatever they hold.
C2_AsciiAlwaysCollected ==
    pc = "returned" => \A c \in ASCII_LO .. ASCII_HI : c \in codepoints

\* C2 happens: a return with an empty document present, a file absent and a
\* filled file present
C2_Witness ==
    /\ pc = "returned"
    /\ \E p \in LocalePaths : fs[p] = EmptyDoc
    /\ \E p \in LocalePaths : fs[p] = Absent
    /\ \E p \in LocalePaths : fs[p].t = "dict" /\ fs[p] # EmptyDoc

\* C3: the returned set is exactly 0x20..0x7E together with the codepoints of
\* the string values of the loaded documents, at any depth; numbers, booleans,
\* null (and mapping keys) add nothing.
C3_ExactlyStringLeaves ==
    pc = "returned" =>
        codepoints = (ASCII_LO .. ASCII_HI)
                        \cup UNION {LeafCodepoints(fs[p]) : p \in PresentLocales}

\* C3 happens: a document two containers deep, holding a string and a non-string
\* leaf under a key of its own, has been collected
C3_Witness ==
    /\ pc = "returned"
    /\ \E p \in PresentLocales :
         /\ fs[p] = JList(<< JDict(<< KV(KeyText, JStr(<<50504>>)) >>), JInt(7) >>)
         /\ DepthOf(fs[p]) = 2
    /\ 50504 \in codepoints
    /\ 223 \notin codepoints

\* The line the scan is to print at position i: Core ja..fr, then Bot ja..fr
ExpectedLine(i) ==
    LET n    == Len(LOCALE_LANGUAGES)
        core == i <= n
        lang == LOCALE_LANGUAGES[IF core THEN i ELSE i - n]
        path == LocalePath(IF core THEN CORE_LOCALES_DIR ELSE BOT_LOCALES_DIR, lang)
    IN  [op |-> "print", dir |-> IF core THEN "Core" ELSE "Bot", lang |-> lang,
         what |-> IF fs[path].t = "absent" THEN "not found (skipped)" ELSE "loaded"]

\* C8: an absent locale file raises nothing and does not stop the scan: all ten
\* files are examined, the five core files first and then the five bot files,
\* each present one is loaded, and the absent ones add nothing to the result.
C8_AbsentFilesSkipped ==
    /\ pc = "call_collect" => ~collect_all_characters(fs).raised
    /\ pc = "returned" =>
        /\ Len(log) = 2 * Len(LOCALE_LANGUAGES)
        /\ \A i \in 1..Len(log) : log[i] = ExpectedLine(i)
        /\ \A p \in PresentLocales : LeafCodepoints(fs[p]) \subseteq codepoints
        /\ \A c \in codepoints :
              \/ c \in ASCII_LO .. ASCII_HI
              \/ \E p \in PresentLocales : c \in LeafCodepoints(fs[p])

\* C8 happens: a scan whose first core file and a bot file are absent while
\* later files of both directories are present and loaded
C8_Witness ==
    /\ pc = "returned"
    /\ fs[LocalePath(CORE_LOCALES_DIR, "ja")] = Absent
    /\ fs[LocalePath(BOT_LOCALES_DIR, "zh")] = Absent
    /\ fs[LocalePath(CORE_LOCALES_DIR, "fr")] = FileDoc(CORE_LOCALES_DIR, "fr")
    /\ fs[LocalePath(BOT_LOCALES_DIR, "fr")] = FileDoc(BOT_LOCALES_DIR, "fr")
    /\ log[1].what = "not found (skipped)"
    /\ log[10].what = "loaded"
    /\ 232 \in codepoints

---------------------------------------------------------------------------
(* Properties of the statistics reporter (checked under SpecStats) *)

\* The five blocks as the documentation names them: <<low, high>>
Blocks ==
    [ascii    |-> <<ASCII_LO, ASCII_HI>>,
     cjk      |-> <<CJK_LO, CJK_HI>>,
     hangul   |-> <<HANGUL_LO, HANGUL_HI>>,
     katakana |-> <<KATAKANA_LO, KATAKANA_HI>>,
     hiragana |-> <<HIRAGANA_LO, HIRAGANA_HI>>]

InBlock(c, b) == Blocks[b][1] <= c /\ c <= Blocks[b][2]

\* C4: the five block ranges are pairwise disjoint, each bucket counts the
\* codepoints of its range, so a codepoint is counted in at most one bucket;
\* Other is never negative and is the number of codepoints in none of the five
\* ranges; the six numbers add up to the total.
C4_BucketsPartition ==
    pc = "returned" =>
        /\ \A a, b \in DOMAIN Blocks :
              a # b => (Blocks[a][2] < Blocks[b][1] \/ Blocks[b][2] < Blocks[a][1])
        /\ \A b \in DOMAIN Blocks :
              stats[b] = Cardinality({c \in codepoints : InBlock(c, b)})
        /\ \A c \in codepoints : Cardinality({b \in DOMAIN Blocks : InBlock(c, b)}) <= 1
        /\ stats.other >= 0
        /\ stats.other =
              Cardinality({c \in codepoints : \A b \in DOMAIN Blocks : ~InBlock(c, b)})
        /\ stats.total = Cardinality(codepoints)
        /\ stats.ascii + stats.cjk + stats.hangul + stats.katakana + stats.hiragana
              + stats.other = stats.total

\* C4 happens: statistics of a set that touches the adjoining ends of Hiragana
\* and Katakana, every block and the remainder
C4_Witness ==
    /\ pc = "returned"
    /\ {HIRAGANA_HI, KATAKANA_LO} \subseteq codepoints
    /\ \A b \in DOMAIN Blocks : stats[b] > 0
    /\ stats.other > 0

---------------------------------------------------------------------------
(* Properties of main (checked under Spec and, for termination, FairSpec) *)

LogAt(op) == {i \in DOMAIN log : log[i].op = op}
CallsTo(output_path) == {i \in LogAt("subset_font") : log[i].output = output_path}
WritesTo(path) == {i \in LogAt("write") : log[i].path = path}

\* Some library call of the run raised
Failed ==
    \E i \in DOMAIN log :
        /\ log[i].op \in {"json.load", "subset_font", "urlretrieve"}
        /\ log[i].raised

\* C1: with the Simplified-Chinese input font missing the run goes no further
\* than the check, where it ends with status 1; no font file is written, nothing
\* is downloaded and subset_font is never called, whatever locale files and
\* Korean candidates there are.
C1_MissingSCExitsWithoutWrites ==
    ~exists(fs, SC_INPUT) =>
        /\ pc \in {"collect", "print_stats", "check_sc", "exited", "crashed"}
        /\ pc = "crashed" => log[Len(log)].op = "json.load"
        /\ pc = "exited" => exit_status = <<1>> /\ stats # None
        /\ exit_status # <<0>>
        /\ \A p \in FontPaths : fs[p] = fs0[p]
        /\ LogAt("subset_font") = {} /\ LogAt("write") = {} /\ LogAt("urlretrieve") = {}

\* C1 happens: the run has exited on the missing font with locale files loaded
\* and a Korean candidate on disk
C1_Witness ==
    /\ pc = "exited"
    /\ ~exists(fs, SC_INPUT)
    /\ exists(fs, kr_candidates[2])
    /\ \E p \in LocalePaths : fs[p].t = "dict"
    /\ \E p \in LocalePaths : fs[p].t = "absent"

\* The candidate file names in the documented order
CandidateNames == <<"NotoSansKR-Variable.ttf", "NotoSansKR[wght].ttf", "NotoSansKR-Regular.ttf">>

\* The first candidate on disk when the run started, in that order
FirstCandidate ==
    LET here == {i \in DOMAIN CandidateNames : fs0[<<FONTS_DIR, CandidateNames[i]>>].t # "absent"}
    IN  IF here = {} THEN NoPath
        ELSE <<FONTS_DIR, CandidateNames[CHOOSE i \in here : \A j \in here : i <= j]>>

\* C5: the Korean input is the first of the three candidates that exists, in the
\* order Variable, [wght], Regular; the download happens exactly when none
\* exists, goes to FONTS_DIR/NotoSansKR-Variable.ttf, and that file is then the
\* input of the Korean subset, which starts only after the download returned.
C5_KoreanInputResolution ==
    /\ \A i \in LogAt("probe") : log[i].found = FirstCandidate
    /\ pc = "subset_kr" =>
          kr_input = IF FirstCandidate = NoPath
                     THEN <<FONTS_DIR, "NotoSansKR-Variable.ttf">> ELSE FirstCandidate
    /\ pc = "download_kr" => FirstCandidate = NoPath
    /\ LogAt("urlretrieve") # {} <=>
          (LogAt("probe") # {} /\ FirstCandidate = NoPath /\ pc # "download_kr")
    /\ \A i \in LogAt("urlretrieve") :
          /\ log[i].path = <<FONTS_DIR, "NotoSansKR-Variable.ttf">>
          /\ FirstCandidate = NoPath
          /\ \E j \in LogAt("probe") : j < i
          /\ ~log[i].raised => log[i + 1] = [op |-> "write", path |-> log[i].path]
    /\ \A i \in CallsTo(KR_OUTPUT) :
          IF FirstCandidate = NoPath
          THEN /\ log[i].input = <<FONTS_DIR, "NotoSansKR-Variable.ttf">>
               /\ \E j \in LogAt("urlretrieve") : j < i /\ ~log[j].raised
          ELSE /\ log[i].input = FirstCandidate
               /\ LogAt("urlretrieve") = {}

\* C5 happens: the first candidate was absent, the second and third on disk, and
\* the Korean subset ran on the second
C5_Witness ==
    /\ pc = "done"
    /\ ~exists(fs0, kr_candidates[1])
    /\ exists(fs0, kr_candidates[2]) /\ exists(fs0, kr_candidates[3])
    /\ \E i \in CallsTo(KR_OUTPUT) : log[i].input = <<FONTS_DIR, "NotoSansKR[wght].ttf">>

\* The override a name ID is to carry after the Korean subset
Override(id) ==
    CASE id = 1 -> "Noto Sans KR"
      [] id = 2 -> "Regular"
      [] id = 4 -> "Noto Sans KR Regular"
      [] id = 6 -> "NotoSansKR-Regular"

\* C6: in the font the Korean call saves, every name record with ID 1, 2, 4 or 6
\* carries its override string and every other record is as the subsetting step
\* left it; the Simplified-Chinese call, without overrides, changes no record.
C6_NameOverrides ==
    \A i \in LogAt("subset_font") :
        log[i].saved.t = "font" =>
            LET e        == log[i]
                produced == Subsetted(fs[e.input].v, e.cps).names
                out      == e.saved.v.names
            IN  /\ fs[e.output] = e.saved
                /\ Len(out) = Len(produced)
                /\ IF e.output = KR_OUTPUT
                   THEN \A k \in DOMAIN out :
                          /\ out[k].nameID = produced[k].nameID
                          /\ out[k].platformID = produced[k].platformID
                          /\ IF out[k].nameID \in {1, 2, 4, 6}
                             THEN out[k].string = Override(out[k].nameID)
                             ELSE out[k].string = produced[k].string
                   ELSE out = produced

\* C6 happens: the run is done, the Korean output came from the variable font,
\* whose two ID 4 records and ID 1, 2, 6 records carry the overrides while its
\* ID 3 and ID 256 records are the source's
C6_Witness ==
    /\ pc = "done"
    /\ fs[kr_input] = NotoSansKRVariable
    /\ LET out == fs[KR_OUTPUT].v.names IN
        /\ Cardinality({k \in DOMAIN out : out[k].nameID = 4
                            /\ out[k].string = "Noto Sans KR Regular"}) = 2
        /\ \A id \in {1, 2, 6} : \E k \in DOMAIN out :
              out[k].nameID = id /\ out[k].string = Override(id)
        /\ \E k \in DOMAIN out : out[k] = NameRecord(256, 3, "Weight")
        /\ \E k \in DOMAIN out : out[k] = NameRecord(3, 3, "2.004;GOOG;NotoSansKR-Thin")
    /\ fs[SC_OUTPUT].v.names = Subsetted(NotoSansSC.v, codepoints).names

\* Both outputs were written by this run and hold fonts
BothOutputsWritten ==
    /\ WritesTo(SC_OUTPUT) # {} /\ fs[SC_OUTPUT].t = "font"
    /\ WritesTo(KR_OUTPUT) # {} /\ fs[KR_OUTPUT].t = "font"
    /\ \A out \in {SC_OUTPUT, KR_OUTPUT} : \E i \in CallsTo(out) : fs[out] = log[i].saved

\* C7: a run whose Simplified-Chinese source exists ends, and ends in normal
\* completion unless a library call raised; at completion both outputs have been
\* written; a run that ends otherwise either raised or is the exit on the missing
\* Simplified-Chinese source.
C7_RunsToCompletion ==
    /\ [](exists(fs0, SC_INPUT) => <>(pc = "done" \/ (pc = "crashed" /\ Failed)))
    /\ [](pc = "done" => exit_status = <<0>> /\ ~Failed /\ BothOutputsWritten)
    /\ [](pc = "crashed" => Failed)
    /\ [](pc = "exited" => ~exists(fs0, SC_INPUT) /\ ~Failed)
    /\ [](~(ENABLED Next) => pc \in {"done", "crashed", "exited"})
    /\ []((Failed /\ ~(ENABLED Next)) => pc = "crashed")

\* C7 happens: a run that had to download the Korean source has completed
C7_Witness ==
    /\ pc = "done"
    /\ exit_status = <<0>>
    /\ exists(fs0, SC_INPUT)
    /\ LogAt("urlretrieve") # {}
    /\ BothOutputsWritten

\* C9: the steps come in the order collection, statistics, Simplified-Chinese
\* subset, Korean subset; the set is collected once, before any font file is
\* touched, and both subset_font calls get that same set; the Korean output is
\* never written before the Simplified-Chinese one.
C9_StepOrder ==
    /\ Cardinality(LogAt("collected")) <= 1
    /\ Cardinality(LogAt("print_stats")) <= 1
    /\ \A i \in LogAt("print_stats") : \E j \in LogAt("collected") : j < i
    /\ \A i \in LogAt("subset_font") \cup LogAt("write") \cup LogAt("urlretrieve")
                \cup LogAt("probe") :
          \E j \in LogAt("print_stats") : j < i
    /\ \A i \in LogAt("collected") \cup LogAt("print_stats") \cup LogAt("subset_font") :
          log[i].cps = codepoints
    /\ \A i \in LogAt("subset_font") : log[i].output \in {SC_OUTPUT, KR_OUTPUT}
    /\ Cardinality(CallsTo(SC_OUTPUT)) <= 1 /\ Cardinality(CallsTo(KR_OUTPUT)) <= 1
    /\ \A i \in CallsTo(KR_OUTPUT) :
          \E j \in CallsTo(SC_OUTPUT) : j < i /\ ~log[j].raised /\ log[j].cps = log[i].cps
    /\ \A i \in WritesTo(KR_OUTPUT) \cup WritesTo(KR_DOWNLOAD) :
          \E j \in WritesTo(SC_OUTPUT) : j < i
    /\ LogAt("collected") = {} => \A p \in FontPaths : fs[p] = fs0[p]

\* C9 happens: a completed run with locale text collected and both outputs written
C9_Witness ==
    /\ pc = "done"
    /\ 50504 \in codepoints /\ 24744 \in codepoints
    /\ WritesTo(SC_OUTPUT) # {} /\ WritesTo(KR_OUTPUT) # {}
    /\ 50504 \in fs[KR_OUTPUT].v.cmap /\ 24744 \in fs[SC_OUTPUT].v.cmap

\* C10: once the Simplified-Chinese output is saved it stays as saved whatever
\* fails later; a failure ends the run at once with status 1, nothing is retried,
\* no file is written twice or removed, and files the run did not write are as
\* they were.
C10_NoRollback ==
    /\ \A i \in CallsTo(SC_OUTPUT) : log[i].saved.t = "font" => fs[SC_OUTPUT] = log[i].saved
    /\ \A p \in Paths :
          /\ Cardinality(WritesTo(p)) <= 1
          /\ WritesTo(p) # {} => exists(fs, p)
          /\ WritesTo(p) = {} => fs[p] = fs0[p]
    /\ Failed => pc = "crashed" /\ exit_status = <<1>>
    /\ \A i \in DOMAIN log :
          (log[i].op \in {"json.load", "subset_font", "urlretrieve"} /\ log[i].raised) =>
              \A j \in (i + 1)..Len(log) : log[j].op = "write" /\ j = i + 1
    /\ Cardinality(LogAt("urlretrieve")) <= 1
    /\ Cardinality(CallsTo(SC_OUTPUT)) + Cardinality(CallsTo(KR_OUTPUT)) <= 2

\* C10 happens: the Simplified-Chinese subset succeeded over an older output, a
\* later step (the Korean subset) failed, and the new Simplified-Chinese output is
\* in place
C10_Witness ==
    /\ pc = "crashed"
    /\ fs0[SC_OUTPUT] = OldSubset
    /\ \E i \in CallsTo(SC_OUTPUT) : ~log[i].raised /\ fs[SC_OUTPUT] = log[i].saved
    /\ \E i \in CallsTo(KR_OUTPUT) : log[i].raised
    /\ fs[KR_OUTPUT] = Partial

=============================================================================
